---- MODULE Spec2Model ----
(***************************************************************************)
(* Model of plaso/parsers/exim.py: the Exim4Parser line grammar, the       *)
(* verification regex, the plugin index built by EnablePlugins and the     *)
(* dispatch done by ParseRecord.                                           *)
(*                                                                         *)
(* Text is modelled as a sequence of one-character strings, so that the    *)
(* grammar and the regular expressions are evaluated character by          *)
(* character, the way pyparsing and re evaluate them.                      *)
(***************************************************************************)
EXTENDS Integers, Sequences, FiniteSets, TLC

\* Longest run of blanks put between the fields of a synthesized line.
MaxPad == 2

(***************************************************************************)
(* Character classes.                                                      *)
(***************************************************************************)
\* pyparsing.nums, also the class \d of the regular expressions.
nums == {"0", "1", "2", "3", "4", "5", "6", "7", "8", "9"}

DigitValue ==
  [c \in nums |->
     CASE c = "0" -> 0 [] c = "1" -> 1 [] c = "2" -> 2 [] c = "3" -> 3
       [] c = "4" -> 4 [] c = "5" -> 5 [] c = "6" -> 6 [] c = "7" -> 7
       [] c = "8" -> 8 [] c = "9" -> 9]

DigitChar == <<"0", "1", "2", "3", "4", "5", "6", "7", "8", "9">>

\* The letters that occur in the modelled input.
Letters == {"a", "b", "d", "e", "k", "m", "n", "o", "p", "s", "t", "x", "y",
            "z", "M"}

\* The class \w of the regular expressions.
ReWord == nums \cup Letters \cup {"_"}

\* The class \s of the regular expressions.
ReSpace == {" ", "\t", "\n", "\r", "\f"}

\* pyparsing's default whitespace, skipped before every grammar element.
DEFAULT_WHITE_CHARS == {" ", "\n", "\t", "\r"}

\* The whitespace LineEnd skips: the default without the newline.
LineEndWhiteChars == DEFAULT_WHITE_CHARS \ {"\n"}

\* pyparsing.printables, as far as the modelled input goes.
printables == nums \cup Letters \cup {"_", "-", "/", ":", "[", "<", ">"}

\* _REPORTER_CHARACTERS.
REPORTER_CHARACTERS == printables \ {":", "[", "<"}

Min(S) == CHOOSE x \in S : \A y \in S : x <= y

(***************************************************************************)
(* pyparsing elements.  A location is a 1-based index into the text;       *)
(* Len(s) + 1 is the end of the text and 0 says that the match failed.     *)
(***************************************************************************)
\* ParserElement._skipIgnorables/preParse: skip the element's whitespace.
SkipWhite(s, loc, white) ==
  Min({j \in loc..(Len(s) + 1) : j = Len(s) + 1 \/ s[j] \notin white})

\* Word(nums, exact=n): the location after exactly n digits, or 0.
WordEnd(s, loc, n) ==
  IF loc = 0 THEN 0
  ELSE LET b == SkipWhite(s, loc, DEFAULT_WHITE_CHARS)
       IN  IF b + n - 1 <= Len(s) /\ \A i \in b..(b + n - 1) : s[i] \in nums
           THEN b + n
           ELSE 0

\* PyParseIntCast of the n digits that end before loc.
RECURSIVE IntCast(_, _, _)
IntCast(s, loc, n) ==
  IF n = 0 THEN 0
  ELSE 10 * IntCast(s, loc - 1, n - 1) + DigitValue[s[loc - 1]]

\* Suppress(Literal(ch)): the location after ch, or 0.
LiteralEnd(s, loc, ch) ==
  IF loc = 0 THEN 0
  ELSE LET b == SkipWhite(s, loc, DEFAULT_WHITE_CHARS)
       IN  IF b <= Len(s) /\ s[b] = ch THEN b + 1 ELSE 0

\* Optional(Suppress(ch)): the location after ch when it is there, else loc.
OptionalEnd(s, loc, ch) ==
  IF loc = 0 THEN 0
  ELSE IF LiteralEnd(s, loc, ch) # 0 THEN LiteralEnd(s, loc, ch) ELSE loc

\* \d{2}:\d{2}:\d{2} at location p of s.
ReTimeAt(s, p) ==
  /\ p + 7 <= Len(s)
  /\ s[p] \in nums /\ s[p + 1] \in nums /\ s[p + 2] = ":"
  /\ s[p + 3] \in nums /\ s[p + 4] \in nums /\ s[p + 5] = ":"
  /\ s[p + 6] \in nums /\ s[p + 7] \in nums

\* \n\w{3}\s+\d{1,2}\s\d{2}:\d{2}:\d{2} at location p of s.
ReNextLineAt(s, p) ==
  /\ p + 3 <= Len(s)
  /\ s[p] = "\n"
  /\ \A i \in (p + 1)..(p + 3) : s[i] \in ReWord
  /\ \E k \in 1..Len(s) : \E nd \in 1..2 :
       /\ p + 3 + k + nd + 1 <= Len(s)
       /\ \A i \in (p + 4)..(p + 3 + k) : s[i] \in ReSpace
       /\ \A i \in (p + 4 + k)..(p + 3 + k + nd) : s[i] \in nums
       /\ s[p + 4 + k + nd] \in ReSpace
       /\ ReTimeAt(s, p + 5 + k + nd)

\* $ without re.MULTILINE: the end, or just before a final newline.
ReDollarAt(s, p) ==
  \/ p = Len(s) + 1
  \/ p = Len(s) /\ s[p] = "\n"

\* The lookahead (?=($|\n\w{3}\s+\d{1,2}\s\d{2}:\d{2}:\d{2})) of the body.
BodyLookahead(s, p) == ReDollarAt(s, p) \/ ReNextLineAt(s, p)

\* Where the body Regex starts: after the whitespace pyparsing skips.
BodyStart(s, loc) ==
  IF loc = 0 THEN 0 ELSE SkipWhite(s, loc, DEFAULT_WHITE_CHARS)

\* Regex(r'.*?(?=...)', re.DOTALL): the first location from b on where the
\* lookahead holds.
BodyEnd(s, b) ==
  IF b = 0 THEN 0 ELSE Min({p \in b..(Len(s) + 1) : BodyLookahead(s, p)})

\* pyparsing.lineEnd(): a newline or the end of the text, or 0.
LineEndEnd(s, loc) ==
  IF loc = 0 THEN 0
  ELSE LET b == SkipWhite(s, loc, LineEndWhiteChars)
       IN  IF b = Len(s) + 1 THEN b
           ELSE IF s[b] = "\n" THEN b + 1 ELSE 0

(***************************************************************************)
(* The line grammar.                                                       *)
(***************************************************************************)
\* _PYPARSING_COMPONENTS['date']: the locations after year, month, day,
\* hour, minute and second; a 0 says that the date does not match from loc.
date(s, loc) ==
  LET year   == WordEnd(s, loc, 4)
      month  == WordEnd(s, LiteralEnd(s, year, "-"), 2)
      day    == WordEnd(s, LiteralEnd(s, month, "-"), 2)
      hour   == WordEnd(s, day, 2)
      minute == WordEnd(s, LiteralEnd(s, hour, ":"), 2)
      second == WordEnd(s, LiteralEnd(s, minute, ":"), 2)
  IN  [year |-> year, month |-> month, day |-> day,
       hour |-> hour, minute |-> minute, second |-> second]

\* Where the body of _EXIM4_LINE starts and ends in s (0: no match).
BodySpan(s) ==
  LET b == BodyStart(s, OptionalEnd(s, date(s, 1).second, ":"))
  IN  [first |-> b, last |-> BodyEnd(s, b)]

\* _EXIM4_LINE.parseString(s) succeeds.
EXIM4_LINE_Matches(s) == LineEndEnd(s, BodySpan(s).last) # 0

\* The ParseResults of _EXIM4_LINE.parseString(s), for a matching s: the
\* named results only, and the grammar names no reporter.
EXIM4_LINE(s) ==
  LET d == date(s, 1)
      b == BodySpan(s)
  IN  [year   |-> IntCast(s, d.year, 4),
       month  |-> IntCast(s, d.month, 2),
       day    |-> IntCast(s, d.day, 2),
       hour   |-> IntCast(s, d.hour, 2),
       minute |-> IntCast(s, d.minute, 2),
       second |-> IntCast(s, d.second, 2),
       body   |-> SubSeq(s, b.first, b.last - 1)]

\* LINE_STRUCTURES.
LINE_STRUCTURES == <<"exim4_line">>

\* _SUPPORTED_KEYS.
SUPPORTED_KEYS == {LINE_STRUCTURES[i] : i \in DOMAIN LINE_STRUCTURES}

\* ParseResults.__getattr__: a result that is not there reads as ''.
Attr(structure, name) ==
  IF name \in DOMAIN structure THEN structure[name] ELSE <<>>

(***************************************************************************)
(* The verification regex.                                                 *)
(***************************************************************************)
\* ^\d{4}-\d{2}-\d{2}\s\d{2}:\d{2}:\d{2}\s as one class per character.
VERIFICATION_REGEX ==
  <<nums, nums, nums, nums, {"-"}, nums, nums, {"-"}, nums, nums, ReSpace,
    nums, nums, {":"}, nums, nums, {":"}, nums, nums, ReSpace>>

\* re.match(_VERIFICATION_REGEX, line) is not None.
VerifyStructure(line) ==
  /\ Len(line) >= Len(VERIFICATION_REGEX)
  /\ \A i \in DOMAIN VERIFICATION_REGEX : line[i] \in VERIFICATION_REGEX[i]

(***************************************************************************)
(* timelib.Timestamp.FromTimeParts.                                        *)
(***************************************************************************)
IsLeapYear(y) == y % 4 = 0 /\ (y % 100 # 0 \/ y % 400 = 0)

DaysInMonth(y, m) ==
  IF m = 2 THEN (IF IsLeapYear(y) THEN 29 ELSE 28)
  ELSE IF m \in {4, 6, 9, 11} THEN 30 ELSE 31

\* The fields form a calendar date and a time of day.
ValidTimeParts(year, month, day, hour, minutes, seconds) ==
  /\ year \in 1..9999
  /\ month \in 1..12
  /\ day \in 1..DaysInMonth(year, month)
  /\ hour \in 0..23
  /\ minutes \in 0..59
  /\ seconds \in 0..59

\* Days from 1970-01-01 to the given date of the Gregorian calendar.
DaysFromEpoch(year, month, day) ==
  LET y   == IF month <= 2 THEN year - 1 ELSE year
      era == y \div 400
      yoe == y - era * 400
      mp  == IF month > 2 THEN month - 3 ELSE month + 9
      doy == (153 * mp + 2) \div 5 + day - 1
      doe == yoe * 365 + yoe \div 4 - yoe \div 100 + doy
  IN  era * 146097 + doe - 719468

\* The instant of the local time parts in a zone utcoffset seconds east of
\* UTC.  The count of microseconds since the epoch is kept as whole seconds
\* and the microseconds within the second, the parser passing no fraction.
FromTimeParts(year, month, day, hour, minutes, seconds, utcoffset) ==
  [seconds |-> DaysFromEpoch(year, month, day) * 86400 + hour * 3600
                 + minutes * 60 + seconds - utcoffset,
   microseconds |-> 0]

(***************************************************************************)
(* Plugins.  The repository registers no plugin class with the parser; the *)
(* model registers two, so that the dispatch has handlers to choose from.  *)
(* NAME is what plugin_includes names, REPORTER what the index is keyed    *)
(* on.                                                                     *)
(***************************************************************************)
plugin_classes ==
  << [NAME |-> "exim4_smtp", REPORTER |-> <<"s", "m", "t", "p">>,
      DATA_TYPE |-> "exim4:smtp"],
     [NAME |-> "exim4_tls", REPORTER |-> <<"t", "l", "s">>,
      DATA_TYPE |-> "exim4:tls"] >>

\* A plugin_includes argument: None, or a list of names.
PluginIncludes ==
  {[none |-> TRUE, names |-> {}]} \cup
  {[none |-> FALSE, names |-> n] :
     n \in SUBSET {"exim4_smtp", "exim4_tls", "exim4_other"}}

\* The base class's EnablePlugins: the plugin objects of the classes that
\* plugin_includes names, or of all of them when it is None or empty.
BaseEnablePlugins(plugin_includes) ==
  SelectSeq(plugin_classes,
            LAMBDA c : \/ plugin_includes.none
                       \/ plugin_includes.names = {}
                       \/ c.NAME \in plugin_includes.names)

\* The loop of EnablePlugins: dict[plugin_object.REPORTER] = plugin_object
\* for the objects from the k-th on.
RECURSIVE IndexPlugins(_, _, _)
IndexPlugins(objects, k, index) ==
  IF k > Len(objects) THEN index
  ELSE IndexPlugins(objects, k + 1,
                    (objects[k].REPORTER :> objects[k]) @@ index)

\* The empty dict.
EmptyDict == [r \in {} |-> r]

\* Exim4LineEvent(timestamp, offset, attributes).
Exim4LineEvent(timestamp, offset, attributes) ==
  [data_type |-> "exim4:line", timestamp |-> timestamp, offset |-> offset,
   attributes |-> attributes]

\* A plugin's Process: it produces one event of its own, or it raises
\* WrongPlugin and produces nothing.
Process(plugin_object, timestamp, attributes, behaviour) ==
  IF behaviour = "accept"
  THEN [raised |-> "",
        produced |-> << [producer |-> plugin_object.NAME,
                         event |-> [data_type |-> plugin_object.DATA_TYPE,
                                    timestamp |-> timestamp, offset |-> 0,
                                    attributes |-> attributes] ] >>]
  ELSE [raised |-> "WrongPlugin", produced |-> <<>>]

Behaviours == {"accept", "decline"}

(***************************************************************************)
(* Inputs.                                                                 *)
(***************************************************************************)
\* mediator.timezone, as seconds east of UTC.
TimeZones == {0, 3600}

StructureKeys == {"exim4_line", "syslog_line"}

\* year, month, day, hour, minute, second of the structures handed to
\* ParseRecord: calendar dates and times, and fields out of range.
TimeParts ==
  { <<2016, 5, 12, 10, 15, 30>>, <<2016, 2, 29, 23, 59, 59>>,
    <<2016, 13, 40, 99, 99, 99>>, <<2015, 2, 29, 0, 0, 0>>,
    <<2016, 4, 31, 10, 15, 30>>, <<2016, 5, 12, 24, 0, 0>>,
    <<2016, 5, 12, 10, 15, 60>>, <<0, 1, 1, 0, 0, 0>> }

Bodies == { <<"o", "k">>, <<"s", "m", "t", "p", ":", " ", "o", "k">> }

\* The reporters a structure can carry: those of the plugins, and another.
Reporters == { <<"s", "m", "t", "p">>, <<"t", "l", "s">>, <<"d", "b">> }

TimeFields(t, body) ==
  [year |-> t[1], month |-> t[2], day |-> t[3], hour |-> t[4],
   minute |-> t[5], second |-> t[6], body |-> body]

\* The structures handed to ParseRecord, with and without a reporter.
Structures ==
  {TimeFields(t, b) : t \in TimeParts, b \in Bodies} \cup
  {TimeFields(t, b) @@ [reporter |-> r] :
     t \in TimeParts, b \in Bodies, r \in Reporters}

\* The digits of n, two or four of them.
Digits2(n) ==
  <<DigitChar[((n \div 10) % 10) + 1], DigitChar[(n % 10) + 1]>>
Digits4(n) == Digits2(n \div 100) \o Digits2(n % 100)

Pad(n) == [i \in 1..n |-> " "]

\* The fields of the synthesized lines: a date and time, and fields that are
\* digits but no date or time.
LineTimeParts == { <<2016, 5, 12, 10, 15, 30>>, <<2016, 13, 40, 99, 99, 99>> }

\* What separates the fields of the date, the date from the time, and the
\* time from the body.
DateSeparators == {"-", "/"}
Gaps == {Pad(n) : n \in 1..MaxPad} \cup { <<"\t">> }
Posts == { <<>>, <<" ">>, <<":">>, <<":", " ">> }

LineBodies == {<<>>} \cup Bodies

\* What follows the body after a newline: nothing, free text, a line with a
\* syslog date ("May 12 10:15:31 z") or the next line of an exim4 log
\* ("2016-05-12 10:15:31 z").
TimeText(h, m, s) ==
  Digits2(h) \o <<":">> \o Digits2(m) \o <<":">> \o Digits2(s)
Rests ==
  { [kind |-> "none", rest |-> <<>>],
    [kind |-> "text", rest |-> <<"b", " ", "z">>],
    [kind |-> "syslog",
     rest |-> <<"M", "a", "y", " ", "1", "2", " ">> \o TimeText(10, 15, 31)
              \o <<" ", "z">>],
    [kind |-> "exim",
     rest |-> Digits4(2016) \o <<"-">> \o Digits2(5) \o <<"-">> \o Digits2(12)
              \o <<" ">> \o TimeText(10, 15, 31) \o <<" ", "z">>] }

SynthesizedLine(t, sep, gap, post, body, r) ==
  Digits4(t[1]) \o <<sep>> \o Digits2(t[2]) \o <<sep>> \o Digits2(t[3])
    \o gap \o TimeText(t[4], t[5], t[6]) \o post \o body
    \o (IF r.kind = "none" THEN <<>> ELSE <<"\n">> \o r.rest)

\* The text units read from a file: the synthesized ones, and a line that
\* has no date ("not-a-date ok").
Inputs ==
  { [line |-> SynthesizedLine(t, sep, gap, post, body, r),
     parts |-> [kind |-> r.kind, body |-> body, rest |-> r.rest]] :
      t \in LineTimeParts, sep \in DateSeparators, gap \in Gaps,
      post \in Posts, body \in LineBodies, r \in Rests }
  \cup
  { [line |-> <<"n", "o", "t", "-", "a", "-", "d", "a", "t", "e", " ",
                "o", "k">>,
     parts |-> [kind |-> "other", body |-> <<>>, rest |-> <<>>]] }

(***************************************************************************)
(* State.                                                                  *)
(***************************************************************************)
VARIABLES
  plugin_objects,              \* self._plugin_objects
  plugin_objects_by_reporter,  \* self._plugin_objects_by_reporter
  timezone,                    \* mediator.timezone
  enabled,                     \* EnablePlugins was called
  plugin_includes,             \* the argument of the last EnablePlugins
  op,                          \* the last operation
  key,                         \* the key of the last ParseRecord
  structure,                   \* the structure of the last ParseRecord
  plugin_behaviour,            \* what the plugin does in the last ParseRecord
  outcome,                     \* how the last operation ended
  time_calls,                  \* the FromTimeParts calls of the last operation
  process_calls,               \* the Process calls of the last operation
  events,                      \* the ProduceEvent calls of the last operation
  line,                        \* the text read from the file
  parts,                       \* what the text was put together from
  verified                     \* the result of VerifyStructure for line

registry == <<plugin_objects, plugin_objects_by_reporter>>
dispatch == <<key, structure, plugin_behaviour, outcome, time_calls,
             process_calls, events>>
text == <<line, parts, verified>>
vars == <<plugin_objects, plugin_objects_by_reporter, timezone, enabled,
          plugin_includes, op, key, structure, plugin_behaviour, outcome,
          time_calls, process_calls, events, line, parts, verified>>

NoStructure == TimeFields(<<0, 0, 0, 0, 0, 0>>, <<>>)
NoParts == [kind |-> "none", body |-> <<>>, rest |-> <<>>]

\* Exim4Parser.__init__, and a mediator with its time zone.  The base
\* constructor runs first and leaves no plugin objects or those of all the
\* classes; the index is emptied after it in either case.
InitParser ==
  /\ plugin_objects \in {<<>>, plugin_classes}
  /\ plugin_objects_by_reporter = EmptyDict
  /\ timezone \in TimeZones
  /\ enabled = FALSE
  /\ plugin_includes = [none |-> TRUE, names |-> {}]
  /\ op = "init"
  /\ key = ""
  /\ structure = NoStructure
  /\ plugin_behaviour = ""
  /\ outcome = ""
  /\ time_calls = 0
  /\ process_calls = <<>>
  /\ events = <<>>
  /\ verified = "unknown"

Init ==
  /\ InitParser
  /\ line = <<>>
  /\ parts = NoParts

(***************************************************************************)
(* Operations.                                                             *)
(***************************************************************************)
\* A fault: the index is not emptied before it is filled.
EnablePlugins_NoReset(includes) ==
  /\ plugin_objects' = BaseEnablePlugins(includes)
  /\ plugin_objects_by_reporter' =
       IndexPlugins(plugin_objects', 1, plugin_objects_by_reporter)
  /\ enabled' = TRUE
  /\ plugin_includes' = includes
  /\ op' = "EnablePlugins"
  /\ outcome' = "ok"
  /\ time_calls' = 0
  /\ process_calls' = <<>>
  /\ events' = <<>>
  /\ UNCHANGED <<timezone, key, structure, plugin_behaviour, text>>

EnablePlugins(includes) ==
  /\ plugin_objects' = BaseEnablePlugins(includes)
  /\ plugin_objects_by_reporter' = IndexPlugins(plugin_objects', 1, EmptyDict)
  /\ enabled' = TRUE
  /\ plugin_includes' = includes
  /\ op' = "EnablePlugins"
  /\ outcome' = "ok"
  /\ time_calls' = 0
  /\ process_calls' = <<>>
  /\ events' = <<>>
  /\ UNCHANGED <<timezone, key, structure, plugin_behaviour, text>>

\* dict.get(reporter, None): the plugin object, or None as the empty tuple.
Get(index, reporter) ==
  IF reporter \in DOMAIN index THEN <<index[reporter]>> ELSE <<>>

\* What a call of ParseRecord did: what it raised, and the calls it made.
Raised(exception, calls) ==
  [raised |-> exception, time_calls |-> calls, process_calls |-> <<>>,
   events |-> <<>>]

\* A fault: the timestamp and the offset change places.
ProduceLineEvent_SwappedArguments(timestamp, attributes) ==
  [producer |-> "ParseRecord",
   event |-> Exim4LineEvent([seconds |-> 0, microseconds |-> 0], timestamp,
                            attributes)]

\* mediator.ProduceEvent(Exim4LineEvent(timestamp, 0, attributes)).
ProduceLineEvent(timestamp, attributes) ==
  [producer |-> "ParseRecord",
   event |-> Exim4LineEvent(timestamp, 0, attributes)]

\* A fault: the decline of a plugin is not caught.
Dispatch_NoFallback(index, timestamp, reporter, attributes, behaviour) ==
  LET plugin == Get(index, reporter)
  IN  IF plugin = <<>>
      THEN [raised |-> "", time_calls |-> 1, process_calls |-> <<>>,
            events |-> <<ProduceLineEvent(timestamp, attributes)>>]
      ELSE
        LET done == Process(plugin[1], timestamp, attributes, behaviour)
        IN  [raised |-> done.raised, time_calls |-> 1,
             process_calls |-> << [plugin |-> plugin[1].NAME,
                                   timestamp |-> timestamp,
                                   attributes |-> attributes,
                                   raised |-> done.raised] >>,
             events |-> done.produced]

\* A fault: the line event is produced after the plugin as well.
Dispatch_AlwaysLineEvent(index, timestamp, reporter, attributes, behaviour) ==
  LET plugin == Get(index, reporter)
  IN  IF plugin = <<>>
      THEN [raised |-> "", time_calls |-> 1, process_calls |-> <<>>,
            events |-> <<ProduceLineEvent(timestamp, attributes)>>]
      ELSE
        LET done == Process(plugin[1], timestamp, attributes, behaviour)
        IN  [raised |-> "", time_calls |-> 1,
             process_calls |-> << [plugin |-> plugin[1].NAME,
                                   timestamp |-> timestamp,
                                   attributes |-> attributes,
                                   raised |-> done.raised] >>,
             events |-> done.produced
                          \o <<ProduceLineEvent(timestamp, attributes)>>]

\* The lookup and the two branches that follow it.
Dispatch(index, timestamp, reporter, attributes, behaviour) ==
  LET plugin == Get(index, reporter)
  IN  IF plugin = <<>>
      THEN [raised |-> "", time_calls |-> 1, process_calls |-> <<>>,
            events |-> <<ProduceLineEvent(timestamp, attributes)>>]
      ELSE
        LET done == Process(plugin[1], timestamp, attributes, behaviour)
            call == [plugin |-> plugin[1].NAME, timestamp |-> timestamp,
                     attributes |-> attributes, raised |-> done.raised]
        IN  IF done.raised = "WrongPlugin"
            THEN [raised |-> "", time_calls |-> 1,
                  process_calls |-> <<call>>,
                  events |-> done.produced
                               \o <<ProduceLineEvent(timestamp, attributes)>>]
            ELSE [raised |-> done.raised, time_calls |-> 1,
                  process_calls |-> <<call>>, events |-> done.produced]

\* A fault: the timestamp is made before the key is looked at.
ParseRecordResult_TimeFirst(index, tz, k, s, behaviour) ==
  IF ~ValidTimeParts(s.year, s.month, s.day, s.hour, s.minute, s.second)
  THEN Raised("TimestampError", 1)
  ELSE IF k \notin SUPPORTED_KEYS
  THEN Raised("UnableToParseFile", 1)
  ELSE Dispatch(index,
                FromTimeParts(s.year, s.month, s.day, s.hour, s.minute,
                              s.second, tz),
                Attr(s, "reporter"), [body |-> s.body], behaviour)

\* A fault: a timestamp that cannot be made is taken to be 0.
ParseRecordResult_ZeroOnError(index, tz, k, s, behaviour) ==
  IF k \notin SUPPORTED_KEYS
  THEN Raised("UnableToParseFile", 0)
  ELSE IF ~ValidTimeParts(s.year, s.month, s.day, s.hour, s.minute, s.second)
  THEN Dispatch(index, [seconds |-> 0, microseconds |-> 0],
                Attr(s, "reporter"), [body |-> s.body], behaviour)
  ELSE Dispatch(index,
                FromTimeParts(s.year, s.month, s.day, s.hour, s.minute,
                              s.second, tz),
                Attr(s, "reporter"), [body |-> s.body], behaviour)

\* The body of ParseRecord.
ParseRecordResult(index, tz, k, s, behaviour) ==
  IF k \notin SUPPORTED_KEYS
  THEN Raised("UnableToParseFile", 0)
  ELSE IF ~ValidTimeParts(s.year, s.month, s.day, s.hour, s.minute, s.second)
  THEN Raised("TimestampError", 1)
  ELSE Dispatch(index,
                FromTimeParts(s.year, s.month, s.day, s.hour, s.minute,
                              s.second, tz),
                Attr(s, "reporter"), [body |-> s.body], behaviour)

\* A fault: the plugin is taken out of the index by the lookup.
ParseRecord_Pop(k, s, b) ==
  LET r == ParseRecordResult(plugin_objects_by_reporter, timezone, k, s, b)
  IN  /\ key' = k
      /\ structure' = s
      /\ plugin_behaviour' = b
      /\ outcome' = (IF r.raised = "" THEN "ok" ELSE r.raised)
      /\ time_calls' = r.time_calls
      /\ process_calls' = r.process_calls
      /\ events' = r.events
      /\ plugin_objects_by_reporter' =
           IF r.process_calls = <<>> THEN plugin_objects_by_reporter
           ELSE [x \in DOMAIN plugin_objects_by_reporter
                         \ {Attr(s, "reporter")} |->
                   plugin_objects_by_reporter[x]]
      /\ UNCHANGED <<plugin_objects, timezone, enabled, plugin_includes>>

ParseRecord(k, s, b) ==
  LET r == ParseRecordResult(plugin_objects_by_reporter, timezone, k, s, b)
  IN  /\ key' = k
      /\ structure' = s
      /\ plugin_behaviour' = b
      /\ outcome' = (IF r.raised = "" THEN "ok" ELSE r.raised)
      /\ time_calls' = r.time_calls
      /\ process_calls' = r.process_calls
      /\ events' = r.events
      /\ UNCHANGED <<registry, timezone, enabled, plugin_includes>>

EnablePluginsCall ==
  \E includes \in PluginIncludes : EnablePlugins(includes)

ParseRecordCall ==
  \E k \in StructureKeys, s \in Structures, b \in Behaviours :
    /\ ParseRecord(k, s, b)
    /\ op' = "ParseRecord"
    /\ UNCHANGED text

Next == EnablePluginsCall \/ ParseRecordCall

Spec == Init /\ [][Next]_vars

(***************************************************************************)
(* Properties of the dispatch, checked under Spec.                         *)
(***************************************************************************)
\* The last operation was a ParseRecord with a supported key and fields
\* that form a date and time.
Dispatched ==
  /\ op = "ParseRecord"
  /\ key \in SUPPORTED_KEYS
  /\ ValidTimeParts(structure.year, structure.month, structure.day,
                    structure.hour, structure.minute, structure.second)

\* The timestamp of the last structure in the mediator's time zone.
Normalized ==
  FromTimeParts(structure.year, structure.month, structure.day,
                structure.hour, structure.minute, structure.second, timezone)

\* The one generic event of the last structure, produced by ParseRecord.
GenericEvents ==
  << [producer |-> "ParseRecord",
      event |-> [data_type |-> "exim4:line", timestamp |-> Normalized,
                 offset |-> 0, attributes |-> [body |-> structure.body]]] >>

HasHandler == Attr(structure, "reporter") \in DOMAIN plugin_objects_by_reporter

\* C1: a ParseRecord with a supported key and a valid timestamp whose
\* reporter has no plugin in the index passes exactly one generic event to
\* ProduceEvent, with the normalized timestamp and the body unchanged, and
\* calls no plugin's Process.
C1_NoHandlerGenericEvent ==
  (Dispatched /\ ~HasHandler) =>
    /\ outcome = "ok"
    /\ process_calls = <<>>
    /\ events = GenericEvents

\* A structure that names a reporter was dispatched while plugins were in
\* the index, none of them for that reporter.
C1_Witness ==
  /\ Dispatched /\ ~HasHandler
  /\ "reporter" \in DOMAIN structure
  /\ plugin_objects_by_reporter # EmptyDict
  /\ Len(events) = 1

\* C2: when the plugin of the reporter declines, ParseRecord ends normally
\* and exactly one generic event is produced, the one the same call
\* produces with no plugin in the index.
C2_DeclineFallsBack ==
  (Dispatched /\ HasHandler /\ plugin_behaviour = "decline") =>
    /\ outcome = "ok"
    /\ events = GenericEvents
    /\ events = ParseRecordResult(EmptyDict, timezone, key, structure,
                                  plugin_behaviour).events

\* A plugin was called, raised WrongPlugin, and the generic event followed.
C2_Witness ==
  /\ Dispatched /\ HasHandler /\ plugin_behaviour = "decline"
  /\ Len(process_calls) = 1
  /\ process_calls[1].raised = "WrongPlugin"
  /\ Len(events) = 1

\* C3: when the plugin of the reporter completes normally, its Process is
\* called exactly once, ParseRecord produces no generic event, and every
\* event that reaches the mediator was produced by that plugin.
C3_AcceptNoGenericEvent ==
  (Dispatched /\ HasHandler /\ plugin_behaviour = "accept") =>
    /\ outcome = "ok"
    /\ Len(process_calls) = 1
    /\ process_calls[1].plugin =
         plugin_objects_by_reporter[structure.reporter].NAME
    /\ \A i \in DOMAIN events :
         /\ events[i].producer # "ParseRecord"
         /\ events[i].producer = process_calls[1].plugin

\* A plugin accepted a record and produced its own event.
C3_Witness ==
  /\ Dispatched /\ HasHandler /\ plugin_behaviour = "accept"
  /\ Len(process_calls) = 1
  /\ Len(events) = 1
  /\ events[1].event.data_type = "exim4:smtp"

\* The plugin classes that a plugin_includes argument activates.
ActiveClasses(includes) ==
  {plugin_classes[i] : i \in
     {j \in DOMAIN plugin_classes :
        \/ includes.none
        \/ includes.names = {}
        \/ plugin_classes[j].NAME \in includes.names}}

\* The index holds exactly the given plugins, each under its reporter.
IndexHoldsExactly(active) ==
  /\ DOMAIN plugin_objects_by_reporter = {c.REPORTER : c \in active}
  /\ \A c \in active : plugin_objects_by_reporter[c.REPORTER] = c
  /\ {plugin_objects[i] : i \in DOMAIN plugin_objects} = active

\* C4: after any sequence of EnablePlugins calls the index is that of the
\* last call alone: every known plugin under its reporter when the include
\* list is None or empty, else exactly the known plugins the list names;
\* and a call that repeats the last one leaves the index as it is.
C4_IndexIsLastCall ==
  /\ [](enabled => IndexHoldsExactly(ActiveClasses(plugin_includes)))
  /\ [][(enabled /\ op' = "EnablePlugins"
           /\ plugin_includes' = plugin_includes)
          => UNCHANGED registry]_vars

\* The index holds one plugin only, both being known: the last call named
\* that one.
C4_Witness ==
  /\ op = "EnablePlugins"
  /\ plugin_includes = [none |-> FALSE, names |-> {"exim4_tls", "exim4_other"}]
  /\ DOMAIN plugin_objects_by_reporter = { <<"t", "l", "s">> }

\* C5: a ParseRecord with a key that is not a line structure's fails with
\* UnableToParseFile whatever the structure and the index are, and makes no
\* timestamp, calls no plugin and produces no event.
C5_UnsupportedKey ==
  (op = "ParseRecord" /\ key \notin SUPPORTED_KEYS) =>
    /\ outcome = "UnableToParseFile"
    /\ time_calls = 0
    /\ process_calls = <<>>
    /\ events = <<>>

\* An unsupported key came with fields that form no date, and with a
\* reporter that has a plugin.
C5_Witness ==
  /\ op = "ParseRecord" /\ key \notin SUPPORTED_KEYS
  /\ outcome = "UnableToParseFile"
  /\ structure.month = 13
  /\ HasHandler

\* C6: when the fields of a record form no calendar date and time, the
\* making of the timestamp fails and no event is produced for the record,
\* by ParseRecord or by a plugin, whatever the index holds.
C6_InvalidTimestampNoEvent ==
  (/\ op = "ParseRecord"
   /\ key \in SUPPORTED_KEYS
   /\ ~ValidTimeParts(structure.year, structure.month, structure.day,
                      structure.hour, structure.minute, structure.second)) =>
    /\ outcome = "TimestampError"
    /\ process_calls = <<>>
    /\ events = <<>>

\* 2016-13-40 99:99:99 came with a reporter that has a plugin.
C6_Witness ==
  /\ op = "ParseRecord" /\ key \in SUPPORTED_KEYS
  /\ structure.month = 13 /\ structure.day = 40 /\ structure.hour = 99
  /\ HasHandler
  /\ outcome = "TimestampError"

\* C10: no ParseRecord changes the plugin objects or the index, however it
\* ends, so that the index stays the one the last EnablePlugins built.
C10_ParseRecordKeepsRegistry ==
  /\ [][op' = "ParseRecord" => UNCHANGED registry]_vars
  /\ [](enabled =>
          plugin_objects_by_reporter =
            IndexPlugins(BaseEnablePlugins(plugin_includes), 1, EmptyDict))

\* A plugin was called by a ParseRecord that followed an EnablePlugins.
C10_Witness ==
  /\ op = "ParseRecord"
  /\ enabled
  /\ Len(process_calls) = 1
  /\ process_calls[1].raised = "WrongPlugin"

(***************************************************************************)
(* Reading a file: the framework verifies the text it read and hands every *)
(* text that a line structure matches to ParseRecord.                      *)
(***************************************************************************)
InitLines ==
  /\ InitParser
  /\ \E i \in Inputs : line = i.line /\ parts = i.parts

VerifyStructureCall ==
  /\ verified = "unknown"
  /\ verified' = (IF VerifyStructure(line) THEN "true" ELSE "false")
  /\ op' = "VerifyStructure"
  /\ UNCHANGED <<registry, timezone, enabled, plugin_includes, dispatch,
                 line, parts>>

ParseLine ==
  /\ op' = "ParseLine"
  /\ UNCHANGED text
  /\ IF EXIM4_LINE_Matches(line)
     THEN \E b \in Behaviours :
            ParseRecord(LINE_STRUCTURES[1], EXIM4_LINE(line), b)
     ELSE /\ outcome' = "ParseException"
          /\ key' = ""
          /\ structure' = NoStructure
          /\ plugin_behaviour' = ""
          /\ time_calls' = 0
          /\ process_calls' = <<>>
          /\ events' = <<>>
          /\ UNCHANGED <<registry, timezone, enabled, plugin_includes>>

NextLines == EnablePluginsCall \/ VerifyStructureCall \/ ParseLine

SpecLines == InitLines /\ [][NextLines]_vars

(***************************************************************************)
(* Properties of the grammar and of the verification, checked under        *)
(* SpecLines.                                                              *)
(***************************************************************************)
\* The reporter a body starts with: the reporter characters before its
\* first colon, or nothing.
CarriedReporter(body) ==
  LET colons == {i \in 2..Len(body) :
                   /\ body[i] = ":"
                   /\ \A j \in 1..(i - 1) : body[j] \in REPORTER_CHARACTERS}
  IN  IF colons = {} THEN <<>> ELSE SubSeq(body, 1, Min(colons) - 1)

\* The text was matched and its fields form a date and time.
LineDispatched ==
  /\ op = "ParseLine"
  /\ outcome # "ParseException"
  /\ ValidTimeParts(structure.year, structure.month, structure.day,
                    structure.hour, structure.minute, structure.second)

\* C7: for a verified line that carries a reporter, with an accepting plugin
\* for that reporter in the index, the plugin's Process is called with the
\* timestamp of the line, and ParseRecord produces no event itself.
C7_LineReporterSelectsHandler ==
  (/\ LineDispatched
   /\ verified = "true"
   /\ CarriedReporter(parts.body) \in DOMAIN plugin_objects_by_reporter
   /\ plugin_behaviour = "accept") =>
    /\ Len(process_calls) = 1
    /\ process_calls[1].plugin =
         plugin_objects_by_reporter[CarriedReporter(parts.body)].NAME
    /\ process_calls[1].timestamp = Normalized
    /\ \A i \in DOMAIN events : events[i].producer # "ParseRecord"

\* The date pattern of the grammar matches at the start of the text.
StartsWithDate(s) == date(s, 1).second # 0

\* C8: VerifyStructure accepts every text that the line grammar matches,
\* and rejects a text that does not start with a date and time.
C8_VerifyAcceptsWhatGrammarMatches ==
  /\ (verified # "unknown" /\ EXIM4_LINE_Matches(line)) => verified = "true"
  /\ (verified # "unknown" /\ ~StartsWithDate(line)) => verified = "false"

\* s ends with the text tail.
EndsWith(s, tail) ==
  /\ Len(tail) <= Len(s)
  /\ SubSeq(s, Len(s) - Len(tail) + 1, Len(s)) = tail

\* C9: in a text that VerifyStructure accepts, free text that follows a body
\* after a newline is captured in the body of the same record, and the body
\* ends exactly before the newline when what follows is the next line of the
\* log, which starts with the date of the grammar.
C9_BodyBoundary ==
  (/\ op = "ParseLine"
   /\ outcome # "ParseException"
   /\ VerifyStructure(line)
   /\ parts.body # <<>>
   /\ parts.kind \in {"text", "exim"}) =>
    IF StartsWithDate(parts.rest)
    THEN structure.body = parts.body
    ELSE EndsWith(structure.body, parts.rest)

====
